---------------------------- MODULE Spec2Model ----------------------------
(***************************************************************************)
(* A model of the four-window workspace of src/src/lib.rs: SwimDocManager  *)
(* (the scheduler and the file-creation modal) and SwimDocument (one       *)
(* window: its character grid, cursor, state machine and private storage). *)
(*                                                                         *)
(* Characters are their code points (NUL = 0 is the grid's sentinel).      *)
(* The display (plot, plot_str) is write-only and is not part of the       *)
(* state.  The storage engine and the interpreter are collaborators: the   *)
(* storage is a directory of (name, content) pairs with the contract of    *)
(* spec.md section 6, the interpreter is a black box whose tick answers    *)
(* Continuing, Finished or AwaitInput.                                     *)
(*                                                                         *)
(* The grid and the storage are scaled down so that the state space is     *)
(* finite and small: WINDOW_WIDTH is 33 in the source (lib.rs:16),         *)
(* WINDOW_HEIGHT 10 (lib.rs:17), MAX_FILES_STORED 31 (lib.rs:35) and       *)
(* MAX_FILENAME_BYTES 10 (lib.rs:36).  Every operator below is written in  *)
(* terms of these names, as the source is, and the seeded files keep the   *)
(* relations to the grid that the source's fixtures have.                  *)
(***************************************************************************)
EXTENDS Integers, Sequences, FiniteSets, TLC

\* ------------------------------------------------------------------ bounds
WINDOW_WIDTH == 3
WINDOW_HEIGHT == 2
MAX_FILES_STORED == 5
MAX_FILENAME_BYTES == 3
\* Update is disabled once the CPU-tick counters add up to MaxTicks.
MaxTicks == 5
\* A behaviour of SpecEdit / SpecModal holds at most this many key events.
MaxEditKeys == 7
MaxModalKeys == 6
\* A behaviour of SpecSched holds at most this many key events.
MaxSchedKeys == 6
MaxAverageKeys == 9
\* A behaviour of SpecPrint holds at most this many key events.
MaxPrintKeys == 5
\* A behaviour of SpecNames holds at most this many key events.
MaxNameKeys == 8

\* --------------------------------------------------------------- constants
NumDocs == 4
MAX_FILE_BYTES == 16384
NUL == 0
BS == 8
NL == 10
ESC == 27
SPACE == 32
CH_e == 101
CH_r == 114
CH_p == 112

Rows == 0 .. (WINDOW_HEIGHT - 1)
Cols == 0 .. (WINDOW_WIDTH - 1)
Docs == 0 .. (NumDocs - 1)

\* enum WindowStatus
DisplayingFiles == "DisplayingFiles"
EditingFile == "EditingFile"
ExecutingFile == "ExecutingFile"
AwaitingInput == "AwaitingInput"
DisplayingOutput == "DisplayingOutput"

\* simple_interp::TickStatus
Continuing == "Continuing"
Finished == "Finished"
AwaitInput == "AwaitInput"

\* pc_keyboard::DecodedKey: RawKey(code) or Unicode(char)
RawKey(code) == [raw |-> code, ch |-> NUL]
Unicode(c) == [raw |-> "Unicode", ch |-> c]

\* pluggable_interrupt_os::vga_buffer::is_drawable: the printable ASCII range
is_drawable(c) == c >= 32 /\ c <= 126

min(a, b) == IF a <= b THEN a ELSE b

safe_add(LIMIT, a, b) == (a + b) % LIMIT

add1(LIMIT, value) == safe_add(LIMIT, value, 1)

\* ------------------------------------------------------------ storage
\* FileSystem (collaborator): a directory in creation order and the content
\* of each entry.
Lookup(fs, name) ==
    IF \E i \in 1 .. Len(fs.names) : fs.names[i] = name
    THEN CHOOSE i \in 1 .. Len(fs.names) : fs.names[i] = name
    ELSE 0

\* open_create(name): an existing file is emptied, a new one takes the next
\* directory slot, and a full directory refuses (DirectoryFull).
open_create(fs, name) ==
    LET i == Lookup(fs, name) IN
    IF i > 0
    THEN [ok |-> TRUE, fs |-> [fs EXCEPT !.data[i] = << >>]]
    ELSE IF Len(fs.names) >= MAX_FILES_STORED
         THEN [ok |-> FALSE, fs |-> fs]
         ELSE [ok |-> TRUE,
               fs |-> [names |-> Append(fs.names, name),
                       data |-> Append(fs.data, << >>)]]

\* write(fd, bytes) on the handle open_create(name) returned
fs_write(fs, name, bytes) == [fs EXCEPT !.data[Lookup(fs, name)] = bytes]

\* open_read(name): does the name exist
open_read_ok(fs, name) == Lookup(fs, name) > 0

\* read(fd, buffer) on the handle open_read(name) returned
fs_read(fs, name) == fs.data[Lookup(fs, name)]

\* list_directory(): (count, names)
list_count(fs) == Len(fs.names)

\* str::trim on a name: leading and trailing spaces removed
RECURSIVE trim_start(_)
trim_start(s) ==
    IF s # << >> /\ Head(s) = SPACE THEN trim_start(Tail(s)) ELSE s

RECURSIVE trim_end(_)
trim_end(s) ==
    IF s # << >> /\ s[Len(s)] = SPACE
    THEN trim_end(SubSeq(s, 1, Len(s) - 1))
    ELSE s

trim(s) == trim_end(trim_start(s))

\* ------------------------------------------------------------ fixtures
Line(n, c) == [i \in 1 .. n |-> c]

RECURSIVE JoinLines(_)
JoinLines(ls) ==
    IF Len(ls) = 0 THEN << >>
    ELSE IF Len(ls) = 1 THEN ls[1]
    ELSE ls[1] \o << NL >> \o JoinLines(Tail(ls))

\* The four seeded programs.  hello is one line shorter than the grid is
\* wide; nums is two short lines; average and pi have more lines than the
\* grid has rows and one indented line longer than the grid is wide.
NameHello == << 104, 101, 108, 108, 111 >>
NameNums == << 110, 117, 109, 115 >>
NameAverage == << 97, 118, 101, 114, 97, 103, 101 >>
NamePi == << 112, 105 >>

ContentHello == Line(WINDOW_WIDTH - 1, CH_p)
ContentNums == JoinLines(<< Line(1, CH_p), Line(2, CH_p) >>)
ContentAverage ==
    JoinLines(<< Line(1, CH_p), Line(2, SPACE) \o Line(WINDOW_WIDTH, CH_p) >>
              \o [i \in 1 .. (WINDOW_HEIGHT + 1) |-> Line(1, CH_p)])
ContentPi ==
    JoinLines(<< Line(2, CH_p), Line(2, SPACE) \o Line(WINDOW_WIDTH + 1, CH_p) >>
              \o [i \in 1 .. (WINDOW_HEIGHT + 2) |-> Line(1, CH_p)])

EmptyFs == [names |-> << >>, data |-> << >>]

create_default_files(fs) ==
    LET f1 == fs_write(open_create(fs, NameHello).fs, NameHello, ContentHello)
        f2 == fs_write(open_create(f1, NameNums).fs, NameNums, ContentNums)
        f3 == fs_write(open_create(f2, NameAverage).fs, NameAverage, ContentAverage)
        f4 == fs_write(open_create(f3, NamePi).fs, NamePi, ContentPi)
    IN  f4

\* ------------------------------------------------------------ SwimDocument
\* An interpreter slot: whether it holds an interpreter, whether that
\* interpreter waits for input, and the lines provide_input has given it.
NoInterp == [some |-> FALSE, blocked |-> FALSE, inputs |-> << >>]

Interpreter_new == [some |-> TRUE, blocked |-> FALSE, inputs |-> << >>]

BlankLetters == [row \in Rows |-> [col \in Cols |-> NUL]]

\* What print has put on the rows of a window's part of the display: shown[r]
\* is the number of the printed line that row r shows (lines are numbered
\* 1, 2, .. in the order print is called), 0 for a row that is blank.
BlankRows == [row \in Rows |-> 0]

SwimDocument_new ==
    [letters |-> BlankLetters,
     num_letters |-> 0,
     next_letter |-> 0,
     current_row |-> 0,
     cursor_position |-> 0,
     active |-> FALSE,
     file_system |-> create_default_files(EmptyFs),
     window_status |-> DisplayingFiles,
     active_file |-> 0,
     program_running |-> FALSE,
     output_line |-> 0,
     array_string |-> << >>,
     current_editing_file |-> << >>,
     input_row |-> 0,
     shown |-> BlankRows,
     lines_printed |-> 0]

\* clear_window: the window's rows on the display are blanked.  lines_printed
\* counts the lines printed onto the window since then.
clear_window(doc) == [doc EXCEPT !.shown = BlankRows, !.lines_printed = 0]

\* clear_line(start_row + row)
clear_line(doc, row) ==
    IF row \in Rows THEN [doc EXCEPT !.shown[row] = 0] ELSE doc

RECURSIVE line_length_from(_, _)
line_length_from(line, i) ==
    IF i >= WINDOW_WIDTH \/ line[i] = NUL THEN i
    ELSE line_length_from(line, i + 1)

get_line_length(doc, row) == line_length_from(doc.letters[row], 0)

is_line_empty(doc, row) == doc.letters[row][0] = NUL

start_new_line(doc, offset) ==
    [doc EXCEPT !.current_row = (doc.current_row + 1) % (WINDOW_HEIGHT - offset),
                !.cursor_position = 0,
                !.num_letters = 0,
                !.next_letter = 0]

row_to_use(doc) ==
    IF doc.window_status = AwaitingInput THEN doc.input_row ELSE doc.current_row

\* handle_unicode, '\n'
handle_newline(doc) ==
    IF doc.window_status = AwaitingInput
    THEN [doc EXCEPT !.cursor_position = 0,
                     !.num_letters = 0,
                     !.next_letter = 0,
                     !.window_status = ExecutingFile,
                     !.program_running = TRUE,
                     !.array_string =
                         [i \in 1 .. doc.num_letters |->
                             doc.letters[doc.input_row][i - 1]]]
    ELSE start_new_line(doc, 0)

\* handle_unicode, backspace: cells cursor-1 .. num_letters-2 take their right
\* neighbour, cell num_letters-1 the sentinel.
handle_backspace(doc) ==
    IF doc.cursor_position > 0
    THEN LET r == row_to_use(doc)
             old == doc.letters[r]
             shifted == [i \in Cols |->
                           IF i >= doc.cursor_position - 1 /\ i < doc.num_letters - 1
                           THEN old[i + 1]
                           ELSE IF i = doc.num_letters - 1 THEN NUL
                           ELSE old[i]]
         IN  [doc EXCEPT !.letters[r] = shifted,
                         !.num_letters = doc.num_letters - 1,
                         !.next_letter = doc.num_letters - 1,
                         !.cursor_position = doc.cursor_position - 1]
    ELSE doc

\* handle_drawable with the count of letters left unclamped
handle_drawable_unclamped(doc, key) ==
    [doc EXCEPT !.letters[row_to_use(doc)][doc.cursor_position] = key,
                !.next_letter = min(add1(WINDOW_WIDTH, doc.next_letter), WINDOW_WIDTH - 1),
                !.num_letters = doc.num_letters + 1,
                !.cursor_position =
                    min(add1(WINDOW_WIDTH, doc.cursor_position), WINDOW_WIDTH - 1)]

\* handle_unicode, a drawable character
handle_drawable(doc, key) ==
    [doc EXCEPT !.letters[row_to_use(doc)][doc.cursor_position] = key,
                !.next_letter = min(add1(WINDOW_WIDTH, doc.next_letter), WINDOW_WIDTH - 1),
                !.num_letters = min(doc.num_letters + 1, WINDOW_WIDTH),
                !.cursor_position =
                    min(add1(WINDOW_WIDTH, doc.cursor_position), WINDOW_WIDTH - 1)]

handle_unicode(doc, key) ==
    IF key = NL THEN handle_newline(doc)
    ELSE IF key = BS THEN handle_backspace(doc)
    ELSE IF is_drawable(key) THEN handle_drawable(doc, key)
    ELSE doc

ArrowUp(doc) ==
    IF doc.window_status = EditingFile /\ doc.current_row > 0
    THEN LET row == doc.current_row - 1
             line_length == get_line_length(doc, row)
         IN  [doc EXCEPT !.current_row = row,
                         !.cursor_position = min(doc.cursor_position, line_length),
                         !.num_letters = line_length,
                         !.next_letter = line_length]
    ELSE doc

ArrowDown(doc) ==
    IF doc.window_status = EditingFile
       /\ doc.current_row < WINDOW_HEIGHT - 1
       /\ ~is_line_empty(doc, doc.current_row + 1)
    THEN LET row == doc.current_row + 1
             line_length == get_line_length(doc, row)
         IN  [doc EXCEPT !.current_row = row,
                         !.cursor_position = min(doc.cursor_position, line_length),
                         !.num_letters = line_length,
                         !.next_letter = line_length]
    ELSE doc

ArrowLeft(doc) ==
    IF doc.window_status = DisplayingFiles
    THEN IF doc.active_file > 0
         THEN [doc EXCEPT !.active_file = doc.active_file - 1]
         ELSE doc
    ELSE IF doc.window_status = EditingFile /\ doc.cursor_position > 0
         THEN [doc EXCEPT !.cursor_position = doc.cursor_position - 1]
         ELSE doc

ArrowRight(doc) ==
    IF doc.window_status = DisplayingFiles
    THEN IF doc.active_file < list_count(doc.file_system) - 1
         THEN [doc EXCEPT !.active_file = doc.active_file + 1]
         ELSE doc
    ELSE IF doc.window_status = EditingFile /\ doc.cursor_position < doc.num_letters
         THEN [doc EXCEPT !.cursor_position = doc.cursor_position + 1]
         ELSE doc

\* SwimDocument::key
doc_key(doc, key) ==
    IF key.raw = "ArrowUp" THEN (IF doc.active THEN ArrowUp(doc) ELSE doc)
    ELSE IF key.raw = "ArrowDown" THEN (IF doc.active THEN ArrowDown(doc) ELSE doc)
    ELSE IF key.raw = "ArrowLeft" THEN (IF doc.active THEN ArrowLeft(doc) ELSE doc)
    ELSE IF key.raw = "ArrowRight" THEN (IF doc.active THEN ArrowRight(doc) ELSE doc)
    ELSE IF key.raw = "Unicode"
         THEN IF doc.window_status = AwaitingInput \/ doc.window_status = EditingFile
              THEN handle_unicode(doc, key.ch)
              ELSE doc
    ELSE doc

\* What makes SwimDocument::key panic: a drawable character written at a
\* column outside the row (index out of bounds), or a backspace with a cursor
\* right of an empty count (usize underflow in num_letters - 1).
doc_key_panics(doc, key) ==
    /\ key.raw = "Unicode"
    /\ doc.window_status = AwaitingInput \/ doc.window_status = EditingFile
    /\ \/ /\ key.ch # NL /\ key.ch # BS /\ is_drawable(key.ch)
          /\ doc.cursor_position >= WINDOW_WIDTH
       \/ /\ key.ch = BS
          /\ doc.cursor_position > 0
          /\ doc.num_letters = 0

\* InterpreterOutput::print for SwimDocument
print(doc) ==
    LET full == doc.output_line >= WINDOW_HEIGHT
        line == IF full THEN WINDOW_HEIGHT - 1 ELSE doc.output_line
        cleared == [row \in Rows |->
                      IF full /\ row < WINDOW_HEIGHT - 1 THEN 0 ELSE doc.shown[row]]
    IN  [doc EXCEPT !.shown = [cleared EXCEPT ![line] = doc.lines_printed + 1],
                    !.lines_printed = doc.lines_printed + 1,
                    !.output_line = line + 1]

\* tick that leaves the delivered line pending
tick_keeps_pending(doc, interpreter, outcome, printed) ==
    LET deliver == doc.array_string # << >>
        ip == IF deliver
              THEN [interpreter EXCEPT !.blocked = FALSE,
                                       !.inputs = Append(@, doc.array_string)]
              ELSE interpreter
        d1 == IF deliver THEN clear_line(doc, 0) ELSE doc
        status == IF ip.blocked THEN AwaitInput ELSE outcome
        d2 == IF printed /\ ~ip.blocked THEN print(d1) ELSE d1
        ran ==
            IF status = Finished
            THEN [doc |-> [d2 EXCEPT !.window_status = DisplayingOutput,
                                     !.program_running = FALSE],
                  interpreter |-> NoInterp]
            ELSE IF status = AwaitInput
            THEN [doc |-> [clear_line(d2, 1) EXCEPT
                                     !.window_status = AwaitingInput,
                                     !.current_row = 0,
                                     !.cursor_position = 0,
                                     !.num_letters = 0,
                                     !.next_letter = 0],
                  interpreter |-> [ip EXCEPT !.blocked = TRUE]]
            ELSE [doc |-> d2, interpreter |-> ip]
        stepped == IF doc.window_status = ExecutingFile /\ interpreter.some
                   THEN ran
                   ELSE [doc |-> doc, interpreter |-> interpreter]
    IN  IF stepped.doc.window_status = AwaitingInput
        THEN [stepped EXCEPT !.doc.output_line = 0]
        ELSE stepped

\* SwimDocument::tick.  outcome and printed are the interpreter's answer to
\* ip.tick(self): its TickStatus and whether it called print on the way.  An
\* interpreter still blocked on input answers AwaitInput and prints nothing.
\* The result is the window and its interpreter slot.
tick(doc, interpreter, outcome, printed) ==
    LET deliver == doc.array_string # << >>
        ip == IF deliver
              THEN [interpreter EXCEPT !.blocked = FALSE,
                                       !.inputs = Append(@, doc.array_string)]
              ELSE interpreter
        d1 == IF deliver
              THEN clear_line([doc EXCEPT !.array_string = << >>], 0)
              ELSE doc
        status == IF ip.blocked THEN AwaitInput ELSE outcome
        d2 == IF printed /\ ~ip.blocked THEN print(d1) ELSE d1
        ran ==
            IF status = Finished
            THEN [doc |-> [d2 EXCEPT !.window_status = DisplayingOutput,
                                     !.program_running = FALSE],
                  interpreter |-> NoInterp]
            ELSE IF status = AwaitInput
            THEN [doc |-> [clear_line(d2, 1) EXCEPT
                                     !.window_status = AwaitingInput,
                                     !.current_row = 0,
                                     !.cursor_position = 0,
                                     !.num_letters = 0,
                                     !.next_letter = 0],
                  interpreter |-> [ip EXCEPT !.blocked = TRUE]]
            ELSE [doc |-> d2, interpreter |-> ip]
        stepped == IF doc.window_status = ExecutingFile /\ interpreter.some
                   THEN ran
                   ELSE [doc |-> doc, interpreter |-> interpreter]
    IN  IF stepped.doc.window_status = AwaitingInput
        THEN [stepped EXCEPT !.doc.output_line = 0]
        ELSE stepped

\* ------------------------------------------------------------ SwimDocManager
VARIABLES documents, interpreters, active_window, ticks, next_tick,
          creating_file, new_filename, panicked,
          keys_used, fresh, hist, passed, typed

\* documents .. panicked are the fields of SwimDocManager (ticks[i] is
\* f1_ticks .. f4_ticks, new_filename holds new_filename_length characters)
\* and whether a handler has panicked.  The others observe the run:
\* keys_used counts key events, fresh counts the drawable characters typed in
\* a row of the active editor since that row was blank, hist holds the
\* runnable set of the latest update cycles and the windows they ticked,
\* passed[i] the windows ticked while window i has been runnable without a
\* tick of its own, typed[i] what the user has composed at the prompt of
\* window i since it began to wait for input (the line, and how many drawable
\* characters went into it).
vars == << documents, interpreters, active_window, ticks, next_tick,
           creating_file, new_filename, panicked, keys_used, fresh, hist,
           passed, typed >>

Self ==
    [documents |-> documents,
     interpreters |-> interpreters,
     active_window |-> active_window,
     ticks |-> ticks,
     next_tick |-> next_tick,
     creating_file |-> creating_file,
     new_filename |-> new_filename,
     panicked |-> panicked]

SwimDocManager_default ==
    [documents |-> [i \in Docs |-> SwimDocument_new],
     interpreters |-> [i \in Docs |-> NoInterp],
     active_window |-> 0,
     ticks |-> [i \in Docs |-> 0],
     next_tick |-> 0,
     creating_file |-> FALSE,
     new_filename |-> << >>,
     panicked |-> FALSE]

\* running_from that also lists the windows waiting for input
RECURSIVE running_from_with_waiting(_, _)
running_from_with_waiting(docs, i) ==
    IF i >= NumDocs THEN << >>
    ELSE IF docs[i].program_running
         THEN << i >> \o running_from_with_waiting(docs, i + 1)
         ELSE running_from_with_waiting(docs, i + 1)

\* update: the windows a cycle may tick, in index order
RECURSIVE running_from(_, _)
running_from(docs, i) ==
    IF i >= NumDocs THEN << >>
    ELSE IF docs[i].program_running /\ docs[i].window_status # AwaitingInput
         THEN << i >> \o running_from(docs, i + 1)
         ELSE running_from(docs, i + 1)

running_programs(self) == running_from(self.documents, 0)

\* update: the window this cycle ticks (count > 0)
doc_to_tick(self) ==
    LET running == running_programs(self)
    IN  running[(self.next_tick % Len(running)) + 1]

\* advance_next_tick with the cursor left where it is
advance_next_tick_stuck(self) == self.next_tick

\* update: the round-robin cursor after a cycle that ticked
advance_next_tick(self) == (self.next_tick + 1) % Len(running_programs(self))

\* update: what the redraw loop does to a window (the active flag, and the
\* row under the prompt of a window that waits for input is cleared)
redraw(doc, is_active) ==
    LET d == [doc EXCEPT !.active = is_active]
    IN  IF d.window_status = AwaitingInput THEN clear_line(d, 1) ELSE d

\* update that charges the tick to the active window
update_charges_active(self, outcome, printed) ==
    LET shown == [self EXCEPT !.documents =
                     [i \in Docs |-> redraw(self.documents[i], i = self.active_window)]]
        count == Len(running_programs(shown))
        d == doc_to_tick(shown)
        t == tick(shown.documents[d], shown.interpreters[d], outcome, printed)
    IN  IF count > 0
        THEN [shown EXCEPT !.ticks[shown.active_window] = @ + 1,
                           !.documents[d] = t.doc,
                           !.interpreters[d] = t.interpreter,
                           !.next_tick = advance_next_tick(shown)]
        ELSE shown

\* SwimDocManager::update
update(self, outcome, printed) ==
    LET shown == [self EXCEPT !.documents =
                     [i \in Docs |-> redraw(self.documents[i], i = self.active_window)]]
        count == Len(running_programs(shown))
        d == doc_to_tick(shown)
        t == tick(shown.documents[d], shown.interpreters[d], outcome, printed)
    IN  IF count > 0
        THEN [shown EXCEPT !.ticks[d] = shown.ticks[d] + 1,
                           !.documents[d] = t.doc,
                           !.interpreters[d] = t.interpreter,
                           !.next_tick = advance_next_tick(shown)]
        ELSE shown

\* serialize_from that ends every non-empty row with a newline
RECURSIVE serialize_from_newline_ended(_, _, _)
serialize_from_newline_ended(doc, row, buffer) ==
    IF row >= WINDOW_HEIGHT THEN buffer
    ELSE IF doc.letters[row][0] = NUL
         THEN serialize_from_newline_ended(doc, row + 1, buffer)
    ELSE serialize_from_newline_ended(doc, row + 1,
             buffer \o [i \in 1 .. line_length_from(doc.letters[row], 0) |->
                           doc.letters[row][i - 1]] \o << NL >>)

\* key, F6: the bytes of the grid.  Each non-empty row up to its first
\* sentinel, a newline after it when a later row is non-empty; nothing is
\* written from position MAX_FILE_BYTES - 2 on.
RECURSIVE serialize_from(_, _, _)
serialize_from(doc, row, buffer) ==
    IF row >= WINDOW_HEIGHT THEN buffer
    ELSE IF is_line_empty(doc, row) THEN serialize_from(doc, row + 1, buffer)
    ELSE LET room == IF Len(buffer) >= MAX_FILE_BYTES - 2
                     THEN 0
                     ELSE MAX_FILE_BYTES - 2 - Len(buffer)
             n == min(get_line_length(doc, row), room)
             b1 == buffer \o [i \in 1 .. n |-> doc.letters[row][i - 1]]
             later == \E r \in Rows : r > row /\ ~is_line_empty(doc, r)
             b2 == IF Len(b1) < MAX_FILE_BYTES - 2 /\ later
                   THEN b1 \o << NL >>
                   ELSE b1
         IN  serialize_from(doc, row + 1, b2)

serialize(doc) == serialize_from(doc, 0, << >>)

\* key, F6: is the active window's grid written back
f6_saves(doc) ==
    doc.window_status = EditingFile /\ Len(doc.current_editing_file) > 0

\* f6_close with the program left marked as running
f6_close_keeps_running(doc) ==
    [clear_window(doc) EXCEPT !.window_status = DisplayingFiles]

\* key, F6: what the key does to the window it closes
f6_close(doc) ==
    [clear_window(doc) EXCEPT !.program_running = FALSE,
                              !.window_status = DisplayingFiles]

\* save_to that also closes the window whose storage takes the save
save_to_closes_target(doc, filename, buffer) ==
    LET created == open_create(doc.file_system, filename)
    IN  IF created.ok
        THEN [doc EXCEPT !.file_system = fs_write(created.fs, filename, buffer),
                         !.window_status = DisplayingFiles]
        ELSE doc

\* key, F6: the save of one window's storage (a refused open_create is skipped)
save_to(doc, filename, buffer) ==
    LET created == open_create(doc.file_system, filename)
    IN  IF created.ok
        THEN [doc EXCEPT !.file_system = fs_write(created.fs, filename, buffer)]
        ELSE doc

\* save_targets with the save kept to the first window
save_targets_first_only == {0}

\* key, F6: the windows whose storage takes the save
save_targets == Docs

key_F6(self) ==
    LET a == self.active_window
        active_doc == self.documents[a]
        save == f6_saves(active_doc)
        filename == active_doc.current_editing_file
        buffer == serialize(active_doc)
        closed == [self.documents EXCEPT ![a] = f6_close(active_doc)]
    IN  [self EXCEPT !.documents =
            IF save
            THEN [i \in Docs |->
                    IF i \in save_targets
                    THEN save_to(closed[i], filename, buffer)
                    ELSE closed[i]]
            ELSE closed]

\* key, 'e': the grid a file's text loads into.  The result is the grid and
\* the row and column the loop ended at.
RECURSIVE load_from(_, _, _, _, _)
load_from(content, i, letters, row, col) ==
    IF i > Len(content) THEN [letters |-> letters, row |-> row, col |-> col]
    ELSE IF content[i] = NL
         THEN IF row + 1 >= WINDOW_HEIGHT
              THEN [letters |-> letters, row |-> row + 1, col |-> 0]
              ELSE load_from(content, i + 1, letters, row + 1, 0)
    ELSE IF is_drawable(content[i]) /\ col < WINDOW_WIDTH
         THEN load_from(content, i + 1,
                        [letters EXCEPT ![row][col] = content[i]], row, col + 1)
    ELSE load_from(content, i + 1, letters, row, col)

\* key, 'e' at DisplayingFiles (the highlighted entry exists)
key_e(doc) ==
    LET name == doc.file_system.names[doc.active_file + 1]
        loaded == load_from(fs_read(doc.file_system, name), 1, BlankLetters, 0, 0)
    IN  [clear_window(doc) EXCEPT
                    !.current_editing_file = name,
                    !.window_status = EditingFile,
                    !.letters = loaded.letters,
                    !.current_row = 0,
                    !.cursor_position = 0,
                    !.num_letters = loaded.col,
                    !.next_letter = loaded.col]

\* key, 'r' at DisplayingFiles (the highlighted entry exists)
key_r(doc) ==
    [clear_window(doc) EXCEPT
                !.window_status = ExecutingFile,
                !.output_line = 0,
                !.current_row = 0,
                !.cursor_position = 0,
                !.num_letters = 0,
                !.next_letter = 0,
                !.program_running = TRUE]

\* key, 'e' and 'r': open_read(..).unwrap() panics when the name it is given
\* is no entry of the directory ('r' trims the name first)
open_panics(doc, c) ==
    \/ doc.active_file + 1 > list_count(doc.file_system)
    \/ /\ c = CH_r
       /\ ~open_read_ok(doc.file_system,
                        trim(doc.file_system.names[doc.active_file + 1]))

\* key_unicode that takes e and r in DisplayingOutput as well
key_unicode_from_output(self, c) ==
    LET a == self.active_window
        active_doc == self.documents[a]
        key == Unicode(c)
    IN  IF active_doc.window_status \in {DisplayingFiles, DisplayingOutput}
           /\ (c = CH_e \/ c = CH_r)
        THEN IF open_panics(active_doc, c)
             THEN [self EXCEPT !.panicked = TRUE]
             ELSE IF c = CH_e
             THEN [self EXCEPT !.documents[a] = key_e(active_doc)]
             ELSE [self EXCEPT !.documents[a] = doc_key(key_r(active_doc), key),
                               !.interpreters[a] = Interpreter_new]
        ELSE IF doc_key_panics(active_doc, key)
             THEN [self EXCEPT !.panicked = TRUE]
             ELSE [self EXCEPT !.documents[a] = doc_key(active_doc, key)]

\* key, Unicode(c)
key_unicode(self, c) ==
    LET a == self.active_window
        active_doc == self.documents[a]
        key == Unicode(c)
    IN  IF active_doc.window_status = DisplayingFiles /\ (c = CH_e \/ c = CH_r)
        THEN IF open_panics(active_doc, c)
             THEN [self EXCEPT !.panicked = TRUE]
             ELSE IF c = CH_e
             THEN [self EXCEPT !.documents[a] = key_e(active_doc)]
             ELSE [self EXCEPT !.documents[a] = doc_key(key_r(active_doc), key),
                               !.interpreters[a] = Interpreter_new]
        ELSE IF doc_key_panics(active_doc, key)
             THEN [self EXCEPT !.panicked = TRUE]
             ELSE [self EXCEPT !.documents[a] = doc_key(active_doc, key)]

\* create_from that goes on past a refusal
RECURSIVE create_from_past_refusal(_, _, _)
create_from_past_refusal(docs, i, filename) ==
    IF i >= NumDocs THEN [ok |-> TRUE, documents |-> docs]
    ELSE LET created == open_create(docs[i].file_system, filename)
             rest == create_from_past_refusal(
                         [docs EXCEPT ![i].file_system = created.fs], i + 1, filename)
         IN  [ok |-> created.ok /\ rest.ok, documents |-> rest.documents]

\* create_from that leaves out the first window
create_from_skips_first(docs, i, filename) ==
    create_from_past_refusal(docs, IF i = 0 THEN 1 ELSE i, filename)

\* file_creation_input, '\n': open_create in window after window, stopping at
\* the first refusal
RECURSIVE create_from(_, _, _)
create_from(docs, i, filename) ==
    IF i >= NumDocs THEN [ok |-> TRUE, documents |-> docs]
    ELSE LET created == open_create(docs[i].file_system, filename)
         IN  IF created.ok
             THEN create_from([docs EXCEPT ![i].file_system = created.fs],
                              i + 1, filename)
             ELSE [ok |-> FALSE, documents |-> docs]

\* file_creation_input that closes the modal whether or not the name was made
file_creation_input_closes(self, key) ==
    IF key.raw # "Unicode" THEN self
    ELSE IF key.ch = NL
    THEN IF Len(self.new_filename) > 0
         THEN [self EXCEPT !.documents =
                   create_from(self.documents, 0, self.new_filename).documents,
                           !.creating_file = FALSE]
         ELSE self
    ELSE IF key.ch = BS
    THEN IF Len(self.new_filename) > 0
         THEN [self EXCEPT !.new_filename =
                   SubSeq(self.new_filename, 1, Len(self.new_filename) - 1)]
         ELSE self
    ELSE IF is_drawable(key.ch) /\ Len(self.new_filename) < MAX_FILENAME_BYTES - 1
    THEN [self EXCEPT !.new_filename = Append(self.new_filename, key.ch)]
    ELSE self

file_creation_input(self, key) ==
    IF key.raw # "Unicode" THEN self
    ELSE IF key.ch = NL
    THEN IF Len(self.new_filename) > 0
         THEN LET made == create_from(self.documents, 0, self.new_filename)
              IN  IF made.ok
                  THEN [self EXCEPT !.documents = made.documents,
                                    !.creating_file = FALSE]
                  ELSE [self EXCEPT !.documents = made.documents]
         ELSE self
    ELSE IF key.ch = BS
    THEN IF Len(self.new_filename) > 0
         THEN [self EXCEPT !.new_filename =
                   SubSeq(self.new_filename, 1, Len(self.new_filename) - 1)]
         ELSE self
    ELSE IF is_drawable(key.ch) /\ Len(self.new_filename) < MAX_FILENAME_BYTES - 1
    THEN [self EXCEPT !.new_filename = Append(self.new_filename, key.ch)]
    ELSE self

\* key: the dispatch with the modal closed
dispatch(self, key) ==
    LET a == self.active_window IN
    IF key.raw = "F1" THEN [self EXCEPT !.active_window = 0]
    ELSE IF key.raw = "F2" THEN [self EXCEPT !.active_window = 1]
    ELSE IF key.raw = "F3" THEN [self EXCEPT !.active_window = 2]
    ELSE IF key.raw = "F4" THEN [self EXCEPT !.active_window = 3]
    ELSE IF key.raw = "F5"
         THEN [self EXCEPT !.creating_file = TRUE, !.new_filename = << >>]
    ELSE IF key.raw = "F6" THEN key_F6(self)
    ELSE IF key.raw = "Unicode" THEN key_unicode(self, key.ch)
    ELSE [self EXCEPT !.documents[a] = doc_key(self.documents[a], key)]

\* SwimDocManager_key without the return after the modal's handler
SwimDocManager_key_no_return(self, key) ==
    IF self.creating_file
    THEN dispatch(file_creation_input(self, key), key)
    ELSE dispatch(self, key)

\* SwimDocManager::key
SwimDocManager_key(self, key) ==
    IF self.creating_file
    THEN file_creation_input(self, key)
    ELSE dispatch(self, key)

\* ------------------------------------------------------------ the machine
NothingTyped == [line |-> << >>, count |-> 0]

NoHist == [run |-> << >>, ticked |-> << >>]

Init ==
    /\ documents = SwimDocManager_default.documents
    /\ interpreters = SwimDocManager_default.interpreters
    /\ active_window = SwimDocManager_default.active_window
    /\ ticks = SwimDocManager_default.ticks
    /\ next_tick = SwimDocManager_default.next_tick
    /\ creating_file = SwimDocManager_default.creating_file
    /\ new_filename = SwimDocManager_default.new_filename
    /\ panicked = SwimDocManager_default.panicked
    /\ keys_used = 0
    /\ fresh = -1
    /\ hist = NoHist
    /\ passed = [i \in Docs |-> {}]
    /\ typed = [i \in Docs |-> NothingTyped]

BlankRow(doc) ==
    /\ doc.letters[doc.current_row] = [col \in Cols |-> NUL]
    /\ doc.cursor_position = 0
    /\ doc.num_letters = 0

\* fresh after a key: n when the key typed the n-th drawable character of a
\* run that began on a blank row of the active editor, -1 otherwise.
fresh_after(key) ==
    LET doc == documents[active_window] IN
    IF /\ ~creating_file
       /\ key.raw = "Unicode"
       /\ is_drawable(key.ch)
       /\ doc.window_status = EditingFile
       /\ ~doc_key_panics(doc, key)
    THEN IF fresh >= 0 /\ fresh <= WINDOW_WIDTH THEN fresh + 1
         ELSE IF fresh < 0 /\ BlankRow(doc) THEN 1
         ELSE -1
    ELSE -1

\* hist after a cycle: the runnable set the cycle saw and, while that set is
\* the one the cycle before saw, the windows ticked (the latest count of them).
hist_after ==
    LET running == running_programs(Self)
        count == Len(running)
        d == doc_to_tick(Self)
        all == IF running = hist.run THEN Append(hist.ticked, d) ELSE << d >>
    IN  IF count = 0 THEN NoHist
        ELSE [run |-> running,
              ticked |-> IF Len(all) > count
                         THEN SubSeq(all, Len(all) - count + 1, Len(all))
                         ELSE all]

\* typed after a step that leaves the windows as docs: a window that does not
\* wait for input, or only now begins to, has nothing typed; at the prompt of
\* the active window a drawable character joins the line and a backspace
\* takes the latest character left.  Lines of more than WINDOW_WIDTH
\* characters are not followed.
typed_by(line, key) ==
    IF key.raw # "Unicode" \/ key.ch = NL THEN line
    ELSE IF key.ch = BS
    THEN [line EXCEPT !.line = IF Len(@) = 0 THEN @ ELSE SubSeq(@, 1, Len(@) - 1)]
    ELSE IF is_drawable(key.ch)
    THEN IF line.count >= WINDOW_WIDTH
         THEN [line |-> << >>, count |-> WINDOW_WIDTH + 1]
         ELSE [line |-> Append(line.line, key.ch), count |-> line.count + 1]
    ELSE line

typed_after(docs, keys) ==
    [i \in Docs |->
        IF documents[i].window_status # AwaitingInput
           \/ docs[i].window_status # AwaitingInput
        THEN NothingTyped
        ELSE IF i = active_window /\ ~creating_file /\ keys # << >>
        THEN typed_by(typed[i], keys[1])
        ELSE typed[i]]

is_runnable(doc) == doc.program_running /\ doc.window_status # AwaitingInput

\* passed after a step that leaves the windows as docs and ticked the windows
\* of the set ticked: a window runnable before and after the step, and not
\* ticked by it, has been passed by one more window.
passed_after(docs, ticked) ==
    [i \in Docs |->
        IF is_runnable(documents[i]) /\ is_runnable(docs[i]) /\ i \notin ticked
        THEN passed[i] \cup ticked
        ELSE {}]

\* One keyboard event, handled to completion.
KeyEvent(key) ==
    /\ ~panicked
    /\ \E m \in {SwimDocManager_key(Self, key)} :
        /\ documents' = m.documents
        /\ interpreters' = m.interpreters
        /\ active_window' = m.active_window
        /\ ticks' = m.ticks
        /\ next_tick' = m.next_tick
        /\ creating_file' = m.creating_file
        /\ new_filename' = m.new_filename
        /\ panicked' = m.panicked
        /\ passed' = passed_after(m.documents, {})
        /\ typed' = typed_after(m.documents, << key >>)
    /\ fresh' = fresh_after(key)
    /\ hist' = hist

TotalTicks == ticks[0] + ticks[1] + ticks[2] + ticks[3]

\* One timer tick: a whole update() cycle, with the answer the interpreter of
\* the ticked window gives.
UpdateEvent(outcome, printed) ==
    /\ ~panicked
    /\ TotalTicks < MaxTicks
    /\ \E m \in {update(Self, outcome, printed)} :
        /\ documents' = m.documents
        /\ interpreters' = m.interpreters
        /\ active_window' = m.active_window
        /\ ticks' = m.ticks
        /\ next_tick' = m.next_tick
        /\ creating_file' = m.creating_file
        /\ new_filename' = m.new_filename
        /\ panicked' = m.panicked
        /\ passed' = passed_after(m.documents,
                                  {i \in Docs : m.ticks[i] # ticks[i]})
        /\ typed' = typed_after(m.documents, << >>)
    /\ hist' = hist_after
    /\ fresh' = fresh
    /\ keys_used' = keys_used

TickStatuses == {Continuing, Finished, AwaitInput}

\* The keys of the keyboard surface: F1 - F6, the arrows, 'e', 'r', newline,
\* backspace and a character that is not drawable.
FunctionKeys == {RawKey("F1"), RawKey("F2"), RawKey("F3"), RawKey("F4")}
ArrowKeys == {RawKey("ArrowUp"), RawKey("ArrowDown"),
              RawKey("ArrowLeft"), RawKey("ArrowRight")}
CharKeys == {Unicode(CH_e), Unicode(CH_r), Unicode(NL), Unicode(BS)}
AllKeys == FunctionKeys \cup ArrowKeys \cup CharKeys
           \cup {RawKey("F5"), RawKey("F6"), Unicode(ESC)}

\* SpecSched: four windows running programs.  Keys select a window, start a
\* program, answer its prompt and close it; every cycle may end any way; at
\* most MaxSchedKeys key events.
SchedKeys == FunctionKeys \cup {Unicode(CH_r), Unicode(NL), RawKey("F6")}

SchedKey ==
    \E key \in SchedKeys :
        /\ keys_used < MaxSchedKeys
        /\ KeyEvent(key)
        /\ keys_used' = keys_used + 1

SchedUpdate ==
    \E outcome \in TickStatuses : UpdateEvent(outcome, FALSE)

NextSched == SchedKey \/ SchedUpdate

SpecSched == Init /\ [][NextSched]_vars

\* SpecEdit: the first window as browser, editor and program window, every
\* key of the surface but the window selection and the modal; at most
\* MaxEditKeys key events.
EditKeys == ArrowKeys \cup CharKeys \cup {RawKey("F6"), Unicode(ESC)}

EditKey ==
    \E key \in EditKeys :
        /\ keys_used < MaxEditKeys
        /\ KeyEvent(key)
        /\ keys_used' = keys_used + 1

EditUpdate ==
    \E outcome \in TickStatuses : UpdateEvent(outcome, FALSE)

NextEdit == EditKey \/ EditUpdate

SpecEdit == Init /\ [][NextEdit]_vars

\* SpecModal: the file-creation modal over two windows that browse and edit;
\* at most MaxModalKeys key events.
ModalKeys == CharKeys \cup {RawKey("F1"), RawKey("F2"), RawKey("F5"),
                            RawKey("F6"), RawKey("ArrowRight")}

ModalKey ==
    \E key \in ModalKeys :
        /\ keys_used < MaxModalKeys
        /\ KeyEvent(key)
        /\ keys_used' = keys_used + 1

ModalUpdate ==
    \E outcome \in {Continuing, Finished} : UpdateEvent(outcome, FALSE)

NextModal == ModalKey \/ ModalUpdate

SpecModal == Init /\ [][NextModal]_vars

\* SpecAverage: the first window runs the average program.  The user
\* highlights average, starts it with r and answers its prompt first with a
\* number and then with quit (each scaled to one character); newline is
\* pressed at the prompt only once that line is typed; at most MaxAverageKeys
\* key events.
\* The interpreter answers each tick as average makes it: it asks for input
\* again and again until the line it was given last is quit, and finishes
\* only after that.
InputFive == << 53 >>
InputQuit == << 113 >>

AverageKeys == {RawKey("ArrowRight"), Unicode(CH_r), Unicode(InputFive[1]),
                Unicode(InputQuit[1]), Unicode(NL)}

\* The line average is to be given next.
NextInput(interpreter) ==
    IF interpreter.inputs = << >> THEN InputFive ELSE InputQuit

AverageAllows(key) ==
    /\ (key = Unicode(CH_r) /\ documents[active_window].window_status = DisplayingFiles) =>
           documents[active_window].file_system.names[documents[active_window].active_file + 1] = NameAverage
    /\ (key = Unicode(NL) /\ documents[active_window].window_status = AwaitingInput) =>
           typed[active_window].line = NextInput(interpreters[active_window])

AverageKey ==
    \E key \in AverageKeys :
        /\ keys_used < MaxAverageKeys
        /\ AverageAllows(key)
        /\ KeyEvent(key)
        /\ keys_used' = keys_used + 1

\* The lines the interpreter of window d has been given once this tick has
\* delivered the pending one.
GivenBy(d) ==
    IF documents[d].array_string # << >>
    THEN Append(interpreters[d].inputs, documents[d].array_string)
    ELSE interpreters[d].inputs

AverageAnswers(outcome) ==
    LET running == running_programs(Self)
        given == GivenBy(doc_to_tick(Self))
    IN  IF running = << >> THEN outcome = Continuing
        ELSE IF given # << >> /\ given[Len(given)] = InputQuit
        THEN outcome \in {Continuing, Finished}
        ELSE outcome \in {Continuing, AwaitInput}

AverageUpdate ==
    \E outcome \in TickStatuses : \E printed \in BOOLEAN :
        /\ AverageAnswers(outcome)
        /\ UpdateEvent(outcome, printed)

NextAverage == AverageKey \/ AverageUpdate

SpecAverage == Init /\ [][NextAverage]_vars

\* SpecPrint: the first window as program window whose program prints: keys
\* start a program, answer its prompt and close it; every cycle may end any
\* way and may print a line; at most MaxPrintKeys key events.
PrintKeys == {Unicode(CH_r), Unicode(CH_p), Unicode(NL), RawKey("F6")}

PrintKey ==
    \E key \in PrintKeys :
        /\ keys_used < MaxPrintKeys
        /\ KeyEvent(key)
        /\ keys_used' = keys_used + 1

PrintUpdate ==
    \E outcome \in TickStatuses : \E printed \in BOOLEAN :
        UpdateEvent(outcome, printed)

NextPrint == PrintKey \/ PrintUpdate

SpecPrint == Init /\ [][NextPrint]_vars

\* SpecNames: the first window browsing a directory that the modal adds names
\* to, names with spaces among them; at most MaxNameKeys key events.
NameKeys == {RawKey("F5"), RawKey("ArrowLeft"), RawKey("ArrowRight"),
             Unicode(SPACE), Unicode(CH_p), Unicode(NL),
             Unicode(CH_e), Unicode(CH_r)}

NameKey ==
    \E key \in NameKeys :
        /\ keys_used < MaxNameKeys
        /\ KeyEvent(key)
        /\ keys_used' = keys_used + 1

NameUpdate ==
    \E outcome \in {Continuing, Finished} : UpdateEvent(outcome, FALSE)

NextNames == NameKey \/ NameUpdate

SpecNames == Init /\ [][NextNames]_vars

\* ------------------------------------------------------------ the claims
ActiveDoc == documents[active_window]

HoldsInterpreter(status) == status = ExecutingFile \/ status = AwaitingInput

\* C1: after every key event and tick, each window has
\* 0 <= cursor_position <= num_letters <= WINDOW_WIDTH.
C1_CursorWithinLine ==
    \A i \in Docs :
        /\ 0 <= documents[i].cursor_position
        /\ documents[i].cursor_position <= documents[i].num_letters
        /\ documents[i].num_letters <= WINDOW_WIDTH

\* An editor whose row is full and whose cursor was walked to its far end.
C1_Witness ==
    \E i \in Docs :
        /\ documents[i].window_status = EditingFile
        /\ documents[i].num_letters = WINDOW_WIDTH
        /\ documents[i].cursor_position = WINDOW_WIDTH

\* C2: when N >= 1 consecutive update cycles saw the same runnable set of
\* size N, they ticked each of its windows exactly once, in rotation order
\* (each cycle ticks the set's next window after the one before, cyclically).
C2_RoundRobinRotation ==
    LET n == Len(hist.run) IN
    (n >= 1 /\ Len(hist.ticked) = n) =>
        \E k \in 0 .. (n - 1) :
            \A j \in 1 .. n : hist.ticked[j] = hist.run[((k + j - 1) % n) + 1]

\* Three cycles over the same three runnable windows.
C2_Witness == Len(hist.run) = 3 /\ Len(hist.ticked) = 3

\* C3: in EditingFile, after WINDOW_WIDTH drawable characters typed on a
\* blank row, one more drawable character leaves those WINDOW_WIDTH
\* characters in their row and is itself the sole content of another row.
C3_OverflowStartsNewRow ==
    [][\A key \in CharKeys :
          (fresh = WINDOW_WIDTH /\ is_drawable(key.ch) /\ KeyEvent(key)) =>
              LET row == ActiveDoc.current_row
                  after == documents'[active_window]
              IN  /\ after.current_row # row
                  /\ after.letters[row] = ActiveDoc.letters[row]
                  /\ after.letters[after.current_row] =
                         [col \in Cols |-> IF col = 0 THEN key.ch ELSE NUL]]_vars

\* C4: the interpreter slot of a window is occupied exactly when the window
\* is in ExecutingFile or AwaitingInput.
C4_InterpreterIffRunning ==
    \A i \in Docs :
        interpreters[i].some <=> HoldsInterpreter(documents[i].window_status)

\* C5: F6 on an editor with a recorded filename leaves, in every window's
\* storage, that filename with the bytes of the editor's grid.
C5_SaveReachesEveryWindow ==
    [][(~creating_file /\ f6_saves(ActiveDoc) /\ KeyEvent(RawKey("F6"))) =>
          \A i \in Docs :
              /\ open_read_ok(documents'[i].file_system, ActiveDoc.current_editing_file)
              /\ fs_read(documents'[i].file_system, ActiveDoc.current_editing_file)
                     = serialize(ActiveDoc)]_vars

\* Every window's storage holds an edited hello, saved from the second window.
C5_Witness ==
    /\ active_window = 1
    /\ ActiveDoc.window_status = DisplayingFiles
    /\ ActiveDoc.current_editing_file = NameHello
    /\ \A i \in Docs :
          fs_read(documents[i].file_system, NameHello) = serialize(ActiveDoc)
    /\ serialize(ActiveDoc) # ContentHello

\* C6: all four windows' storages hold the same directory: the same names
\* with the same content.
C6_DirectoriesAgree ==
    \A i, j \in Docs : documents[i].file_system = documents[j].file_system

\* A file made in the modal filled the directories and a save changed hello.
C6_Witness ==
    \A i \in Docs :
        /\ list_count(documents[i].file_system) = MAX_FILES_STORED
        /\ fs_read(documents[i].file_system, NameHello) # ContentHello

\* C7: while the modal is open, a key event changes no window's grid, cursor,
\* highlighted file or status, nor the active-window index.
C7_ModalKeysTouchNoWindow ==
    [][(creating_file /\ \E key \in AllKeys : KeyEvent(key)) =>
          /\ active_window' = active_window
          /\ \A i \in Docs :
                /\ documents'[i].letters = documents[i].letters
                /\ documents'[i].cursor_position = documents[i].cursor_position
                /\ documents'[i].current_row = documents[i].current_row
                /\ documents'[i].active_file = documents[i].active_file
                /\ documents'[i].window_status = documents[i].window_status]_vars

\* The modal holds a typed name over an active editor.
C7_Witness ==
    /\ creating_file
    /\ Len(new_filename) > 0
    /\ ActiveDoc.window_status = EditingFile

RefusedSomewhere ==
    \E i \in Docs : ~open_create(documents[i].file_system, new_filename).ok

\* C8: newline in the modal with a non-empty name that a full directory
\* refuses leaves the modal open and every window's storage as it was.
C8_RefusedCreationChangesNothing ==
    [][(creating_file /\ Len(new_filename) > 0 /\ RefusedSomewhere
        /\ KeyEvent(Unicode(NL))) =>
          /\ creating_file'
          /\ \A i \in Docs :
                documents'[i].file_system = documents[i].file_system]_vars

\* The modal holds a name that the full directories refuse.
C8_Witness ==
    /\ creating_file
    /\ Len(new_filename) > 0
    /\ RefusedSomewhere
    /\ \A i \in Docs : list_count(documents[i].file_system) = MAX_FILES_STORED

ClosedAfter ==
    /\ documents'[active_window'].window_status = DisplayingFiles
    /\ ~documents'[active_window'].program_running

\* C9 as claimed: in every reachable state, the modal open or not, an F6 key
\* event leaves the active window in DisplayingFiles, program_running false.
C9_F6AlwaysCloses ==
    [][KeyEvent(RawKey("F6")) => ClosedAfter]_vars

\* C9 as amended: with the modal closed, an F6 key event leaves the active
\* window in DisplayingFiles with program_running false.
C9_F6ClosesWhenModalClosed ==
    [][(~creating_file /\ KeyEvent(RawKey("F6"))) => ClosedAfter]_vars

\* F6 closed a window that was executing a program.
C9_Witness ==
    /\ ~creating_file
    /\ ActiveDoc.window_status = DisplayingFiles
    /\ ~ActiveDoc.program_running
    /\ interpreters[active_window].some

\* C10: with the modal closed, r on an active window in DisplayingOutput
\* moves that window to DisplayingFiles.
C10_RDismissesOutput ==
    [][(~creating_file /\ ActiveDoc.window_status = DisplayingOutput
        /\ KeyEvent(Unicode(CH_r))) =>
          documents'[active_window].window_status = DisplayingFiles]_vars

\* C11: in every reachable state with the modal closed, from startup on,
\* exactly one of the four windows has its active flag set.
C11_ExactlyOneActive ==
    ~creating_file => Cardinality({i \in Docs : documents[i].active}) = 1

Runnable == {i \in Docs : documents[i].program_running
                          /\ documents[i].window_status # AwaitingInput}

\* What a cycle leaves alone in window i: everything but the active flag.
UntouchedByCycle(i) ==
    /\ interpreters'[i] = interpreters[i]
    /\ documents'[i] = [documents[i] EXCEPT !.active = (i = active_window)]

\* C12: an update cycle over a non-empty runnable set ticks exactly one
\* window of the set, adds one to that window's CPU-tick counter and leaves
\* the other counters, windows and interpreters alone; over an empty set it
\* advances no interpreter and changes no counter.  (The cycles are the
\* steps that are no key event: those that leave keys_used alone.)
C12_OneWindowPerCycle ==
    [][keys_used' = keys_used =>
          IF Runnable = {}
          THEN /\ ticks' = ticks
               /\ \A i \in Docs : UntouchedByCycle(i)
          ELSE \E d \in Runnable :
                  /\ ticks' = [ticks EXCEPT ![d] = ticks[d] + 1]
                  /\ interpreters[d].some
                  /\ documents[d].window_status = ExecutingFile
                  /\ \A i \in Docs \ {d} : UntouchedByCycle(i)]_vars

\* Three windows ran; the first two were ticked once each, the third not yet.
C12_Witness ==
    /\ ticks = [i \in Docs |-> IF i < 2 THEN 1 ELSE 0]
    /\ \A i \in 0 .. 2 : documents[i].program_running

\* C13: a window's CPU-tick counter rises in a cycle only if the window was
\* in ExecutingFile when the cycle began; a window in AwaitingInput, or one
\* whose program finished, is not charged.
C13_OnlyExecutingIsCharged ==
    [][\A i \in Docs :
          ticks'[i] # ticks[i] =>
              /\ documents[i].window_status = ExecutingFile
              /\ documents[i].program_running
              /\ ticks'[i] = ticks[i] + 1]_vars

\* One window waits for input and one has finished, each charged once, while
\* a third went on being ticked.
C13_Witness ==
    \E i, j, k \in Docs :
        /\ documents[i].window_status = AwaitingInput /\ ticks[i] = 1
        /\ documents[j].window_status = DisplayingOutput /\ ticks[j] = 1
        /\ documents[k].window_status = ExecutingFile /\ ticks[k] >= 2

\* C14: no runnable window loses its turn to a window ticked twice: a cycle
\* never ticks a window that was already ticked while another window has
\* been runnable, without a tick of its own, the whole time.  (Under repeated
\* cycles this bounds the wait of every window that stays runnable, whatever
\* keys and ticks change the runnable set of the others.)
C14_NoWindowTickedTwiceOverAnother ==
    [][\A d \in Docs :
          ticks'[d] # ticks[d] =>
              \A i \in Docs \ {d} :
                  is_runnable(documents[i]) => d \notin passed[i]]_vars

\* C15: no access to the grid is out of bounds: current_row stays below
\* WINDOW_HEIGHT in every window, and whenever a drawable character is
\* written at the cursor of the active editor or input line, cursor_position
\* is below WINDOW_WIDTH, also after the arrows moved the cursor on a full row.
C15_NoOutOfBoundsAccess ==
    [][/\ \A i \in Docs : documents'[i].current_row < WINDOW_HEIGHT
       /\ \A key \in CharKeys :
             (/\ ~creating_file
              /\ is_drawable(key.ch)
              /\ ActiveDoc.window_status \in {EditingFile, AwaitingInput}
              /\ KeyEvent(key)) =>
                 /\ ActiveDoc.cursor_position < WINDOW_WIDTH
                 /\ ~panicked']_vars

\* C16: running average with the lines 5 and quit typed at its prompts, the
\* window's status changes only ExecutingFile -> AwaitingInput (with nothing
\* or only 5 given so far) -> ExecutingFile (the typed line pending) -> ... ->
\* DisplayingOutput (5 and quit given, once each, program_running false), and
\* the lines given to the interpreter grow only by the pending line, which the
\* delivering tick clears.
C16_AverageRun ==
    [][LET before == documents[0]
           after == documents'[0]
           given == interpreters[0].inputs
           given_after == interpreters'[0].inputs
       IN  /\ before.window_status # after.window_status =>
                \/ /\ before.window_status = DisplayingFiles
                   /\ after.window_status = ExecutingFile
                   /\ given_after = << >>
                   /\ after.array_string = << >>
                \/ /\ before.window_status = ExecutingFile
                   /\ after.window_status = AwaitingInput
                   /\ given_after \in {<< >>, << InputFive >>}
                   /\ after.array_string = << >>
                \/ /\ before.window_status = AwaitingInput
                   /\ after.window_status = ExecutingFile
                   /\ after.array_string = NextInput(interpreters[0])
                   /\ given_after = given
                \/ /\ before.window_status = ExecutingFile
                   /\ after.window_status = DisplayingOutput
                   /\ GivenBy(0) = << InputFive, InputQuit >>
                   /\ ~after.program_running
           /\ after.window_status \in {ExecutingFile, AwaitingInput} =>
                \/ given_after = given /\ after.array_string = before.array_string
                \/ /\ before.window_status = ExecutingFile
                   /\ before.array_string # << >>
                   /\ given_after = Append(given, before.array_string)
                   /\ after.array_string = << >>
                \/ before.window_status \in {DisplayingFiles, AwaitingInput}]_vars

\* average has finished after three ticks or more, quit typed over the 5 on
\* the input row.
C16_Witness ==
    /\ documents[0].window_status = DisplayingOutput
    /\ ~documents[0].program_running
    /\ documents[0].letters[documents[0].input_row][0] = InputQuit[1]
    /\ ticks[0] >= 3

\* C17: a scheduled tick of a window in ExecutingFile that finds a non-empty
\* pending input delivers it, clears the pending slot and does not advance
\* the interpreter in that tick: the interpreter has the line and nothing
\* else about the interpreter or the window's status and output has changed.
C17_DeliveringTickDoesNotAdvance ==
    [][\A d \in Docs :
          (/\ ticks'[d] # ticks[d]
           /\ documents[d].window_status = ExecutingFile
           /\ documents[d].array_string # << >>) =>
              /\ documents'[d].array_string = << >>
              /\ interpreters'[d] =
                     [interpreters[d] EXCEPT
                         !.blocked = FALSE,
                         !.inputs = Append(@, documents[d].array_string)]
              /\ documents'[d].window_status = ExecutingFile
              /\ documents'[d].output_line = documents[d].output_line]_vars

\* C18: newline at AwaitingInput makes the pending input exactly what was
\* typed since the window began to wait (each backspace having removed the
\* latest character left), for every line of at most WINDOW_WIDTH typed
\* characters and whatever the grid held before; the window's next scheduled
\* tick delivers that line.
C18_PendingInputIsWhatWasTyped ==
    [][/\ (/\ ~creating_file
           /\ ActiveDoc.window_status = AwaitingInput
           /\ typed[active_window].count <= WINDOW_WIDTH
           /\ KeyEvent(Unicode(NL))) =>
              documents'[active_window].array_string = typed[active_window].line
       /\ \A d \in Docs :
             (ticks'[d] # ticks[d] /\ documents[d].array_string # << >>) =>
                 /\ documents'[d].array_string = << >>
                 /\ interpreters'[d].some =>
                        interpreters'[d].inputs =
                            Append(interpreters[d].inputs, documents[d].array_string)]_vars

\* C19: in EditingFile a backspace with the cursor at column c > 0 removes
\* the character at c - 1 of the current row, moves every character right of
\* it one cell left and puts the sentinel in the last cell, leaving the other
\* rows alone; with the cursor at column 0 it changes nothing and joins no
\* rows.
C19_BackspaceShiftsRow ==
    [][(/\ ~creating_file
        /\ ActiveDoc.window_status = EditingFile
        /\ KeyEvent(Unicode(BS))) =>
          LET c == ActiveDoc.cursor_position
              r == ActiveDoc.current_row
              old == ActiveDoc.letters[r]
              after == documents'[active_window]
          IN  IF c > 0
              THEN /\ after.letters =
                         [ActiveDoc.letters EXCEPT ![r] =
                             [i \in Cols |->
                                 IF i < c - 1 THEN old[i]
                                 ELSE IF i < WINDOW_WIDTH - 1 THEN old[i + 1]
                                 ELSE NUL]]
                   /\ after.current_row = r
                   /\ after.cursor_position = c - 1
              ELSE /\ after.letters = ActiveDoc.letters
                   /\ after.current_row = r
                   /\ after.cursor_position = 0]_vars

\* C20: every window starts in DisplayingFiles, and a window's status changes
\* only DisplayingFiles -> EditingFile on e, DisplayingFiles -> ExecutingFile
\* on r, ExecutingFile -> AwaitingInput or DisplayingOutput on a tick of that
\* window, AwaitingInput -> ExecutingFile on newline, DisplayingOutput ->
\* DisplayingFiles on r, and any status -> DisplayingFiles on F6, the keys
\* acting on the active window with the modal closed.
C20_StatusEdges ==
    /\ \A i \in Docs : documents[i].window_status = DisplayingFiles
    /\ [][\A i \in Docs :
             LET before == documents[i].window_status
                 after == documents'[i].window_status
                 KeyHere(key) == i = active_window /\ ~creating_file /\ KeyEvent(key)
             IN  before # after =>
                    \/ /\ before = DisplayingFiles /\ after = EditingFile
                       /\ KeyHere(Unicode(CH_e))
                    \/ /\ before = DisplayingFiles /\ after = ExecutingFile
                       /\ KeyHere(Unicode(CH_r))
                    \/ /\ before = ExecutingFile
                       /\ after \in {AwaitingInput, DisplayingOutput}
                       /\ ticks'[i] = ticks[i] + 1
                    \/ /\ before = AwaitingInput /\ after = ExecutingFile
                       /\ KeyHere(Unicode(NL))
                    \/ /\ before = DisplayingOutput /\ after = DisplayingFiles
                       /\ KeyHere(Unicode(CH_r))
                    \/ /\ after = DisplayingFiles
                       /\ KeyHere(RawKey("F6"))]_vars

\* An editor opened in a window that before ran a program, answered its
\* prompt and was closed.
C20_Witness ==
    /\ ActiveDoc.window_status = EditingFile
    /\ interpreters[active_window].inputs # << >>

\* C21: with the modal closed, a key event changes nothing of a window other
\* than the active one (status, grid, cursor, highlighted file,
\* program_running, pending input, interpreter slot) except its storage, and
\* its storage only when the key is F6.
C21_KeysTouchOnlyTheActiveWindow ==
    [][(~creating_file /\ keys_used' # keys_used) =>
          \A i \in Docs \ {active_window} :
              /\ interpreters'[i] = interpreters[i]
              /\ documents'[i] =
                     [documents[i] EXCEPT !.file_system = documents'[i].file_system]
              /\ documents'[i].file_system # documents[i].file_system =>
                     KeyEvent(RawKey("F6"))]_vars

\* The first window still edits hello as it loaded it, while a save from the
\* second window has changed hello in the first window's storage.
C21_Witness ==
    /\ active_window = 1
    /\ documents[0].window_status = EditingFile
    /\ documents[0].letters = key_e(SwimDocument_new).letters
    /\ fs_read(documents[0].file_system, NameHello) # ContentHello


\* The rows of a window after line k went onto it the way a scrolling window
\* shows it: every line one row up, line k on the bottom row.
Scrolled(rows, k) ==
    [row \in Rows |-> IF row < WINDOW_HEIGHT - 1 THEN rows[row + 1] ELSE k]

\* C22: when a tick that delivers no input and leaves the program running
\* prints a line onto a window, the k-th since the program started, then
\* (a) if k <= WINDOW_HEIGHT the line is on the k-th row of the window, and
\* (b) if every row of the window held output, the rows afterwards are the
\* former rows 2 .. WINDOW_HEIGHT moved up by one with the new line on the
\* bottom row.
C22_OutputScrolls ==
    [][\A d \in Docs :
          (ticks'[d] # ticks[d]
             /\ documents[d].array_string = << >>
             /\ documents'[d].window_status = ExecutingFile
             /\ documents'[d].lines_printed = documents[d].lines_printed + 1) =>
              LET k == documents'[d].lines_printed
              IN  /\ k <= WINDOW_HEIGHT => documents'[d].shown[k - 1] = k
                  /\ (\A row \in Rows : documents[d].shown[row] # 0) =>
                         documents'[d].shown = Scrolled(documents[d].shown, k)]_vars

\* The characters of a row of the grid up to its first sentinel cell.
RowText(line) ==
    LET stops == {c \in Cols : line[c] = NUL}
        n == IF stops = {} THEN WINDOW_WIDTH
             ELSE CHOOSE c \in stops : \A c2 \in stops : c <= c2
    IN  [i \in 1 .. n |-> line[i - 1]]

\* The texts of the non-empty rows of a grid from a row on, in row order.
RECURSIVE NonEmptyRowsFrom(_, _)
NonEmptyRowsFrom(letters, row) ==
    IF row >= WINDOW_HEIGHT THEN << >>
    ELSE IF RowText(letters[row]) = << >> THEN NonEmptyRowsFrom(letters, row + 1)
    ELSE << RowText(letters[row]) >> \o NonEmptyRowsFrom(letters, row + 1)

\* C23: when F6 saves the grid of the active editor, the bytes stored under
\* the edited file's name are the texts of the non-empty rows of the grid in
\* row order, one newline between consecutive ones, none after the last and
\* nothing for an empty row; nothing is cut off (no grid reaches the
\* file-size bound).
C23_SaveWritesTheRows ==
    [][(~creating_file /\ keys_used' # keys_used
          /\ f6_saves(ActiveDoc)
          /\ documents'[active_window].window_status = DisplayingFiles) =>
          /\ fs_read(documents'[active_window].file_system,
                     ActiveDoc.current_editing_file)
                 = JoinLines(NonEmptyRowsFrom(ActiveDoc.letters, 0))
          /\ Len(JoinLines(NonEmptyRowsFrom(ActiveDoc.letters, 0)))
                 < MAX_FILE_BYTES - 2]_vars

\* hello was saved from a grid of two non-empty rows
C23_Witness ==
    /\ documents[0].window_status = DisplayingFiles
    /\ fs_read(documents[0].file_system, NameHello)
          = JoinLines(<< ContentHello, << CH_e >> >>)

\* C24: every window's highlighted-file index is an index of its directory;
\* ArrowRight and ArrowLeft on a window that browses (and carries the active
\* flag) move the index by one and leave it alone at the respective end; and
\* no key on a browsing window (e and r among them) fails to open the entry
\* it addresses.
C24_HighlightedFileExists ==
    /\ \A i \in Docs :
          documents[i].active_file \in 0 .. list_count(documents[i].file_system) - 1
    /\ [][(~creating_file /\ ~panicked /\ keys_used' # keys_used
             /\ ActiveDoc.window_status = DisplayingFiles) =>
             /\ \A i \in Docs :
                   documents'[i].active_file \in
                       0 .. list_count(documents'[i].file_system) - 1
             /\ (ActiveDoc.active /\ KeyEvent(RawKey("ArrowRight"))) =>
                   documents'[active_window].active_file =
                       IF ActiveDoc.active_file
                              < list_count(ActiveDoc.file_system) - 1
                       THEN ActiveDoc.active_file + 1
                       ELSE ActiveDoc.active_file
             /\ (ActiveDoc.active /\ KeyEvent(RawKey("ArrowLeft"))) =>
                   documents'[active_window].active_file =
                       IF ActiveDoc.active_file > 0
                       THEN ActiveDoc.active_file - 1
                       ELSE 0
             /\ ~panicked']_vars

\* C25: when r starts a program in a window (a key takes the window from
\* DisplayingFiles to ExecutingFile), the window's pending input is empty.
C25_RunStartsWithNoPendingInput ==
    [][(keys_used' # keys_used
          /\ ActiveDoc.window_status = DisplayingFiles
          /\ documents'[active_window].window_status = ExecutingFile) =>
          documents'[active_window].array_string = << >>]_vars

\* C26: when an arrow key is dispatched with the modal closed, the active
\* flag is set in the window the key goes to and in no other window, and the
\* key does to that window what it does to a window whose flag is set.
C26_ArrowActsOnSelectedWindow ==
    [][\A key \in ArrowKeys :
          (~creating_file /\ keys_used' # keys_used /\ KeyEvent(key)) =>
              /\ \A i \in Docs : documents[i].active <=> i = active_window
              /\ documents'[active_window] =
                     [doc_key([ActiveDoc EXCEPT !.active = TRUE], key)
                         EXCEPT !.active = ActiveDoc.active]]_vars

\* The window is an editor as e has just opened it: nothing but what e sets
\* when it loads the highlighted file.
JustOpened(doc) ==
    /\ doc.window_status = EditingFile
    /\ doc = key_e([doc EXCEPT !.window_status = DisplayingFiles])

\* C27: F6 on an editor that e has just opened leaves the content of every
\* file in every window's storage as it was.
C27_OpenThenSaveChangesNothing ==
    [][(~creating_file /\ keys_used' # keys_used
          /\ JustOpened(ActiveDoc)
          /\ documents'[active_window].window_status = DisplayingFiles) =>
          \A i \in Docs :
              documents'[i].file_system = documents[i].file_system]_vars

\* C28: a window's program_running is set exactly when its status is
\* ExecutingFile or AwaitingInput, and the windows the scheduler collects as
\* runnable are exactly those in ExecutingFile.
C28_RunningIffExecutingOrAwaiting ==
    /\ \A i \in Docs :
          documents[i].program_running
              <=> documents[i].window_status \in {ExecutingFile, AwaitingInput}
    /\ LET running == running_programs(Self)
       IN  {running[n] : n \in 1 .. Len(running)}
               = {i \in Docs : documents[i].window_status = ExecutingFile}

\* one window waits for input, another runs, a third shows finished output
C28_Witness ==
    /\ \E i \in Docs : documents[i].window_status = AwaitingInput
    /\ \E i \in Docs : documents[i].window_status = ExecutingFile
    /\ \E i \in Docs : documents[i].window_status = DisplayingOutput

\* C29: after every key event that leaves the active window in EditingFile,
\* the window's num_letters is the length of its current row, the number of
\* cells of the row before the first sentinel.
C29_NumLettersIsRowLength ==
    [][(keys_used' # keys_used /\ ~panicked'
          /\ documents'[active_window].window_status = EditingFile) =>
          documents'[active_window].num_letters =
              Len(RowText(documents'[active_window].letters[
                              documents'[active_window].current_row]))]_vars
=============================================================================
